---- MODULE Spec2Model ----
(***************************************************************************)
(* Model of ftp_downloader.py: the recursive SFTP mirror                   *)
(* (download_sftp_dir / download_sftp_file), the archiver                  *)
(* (create_zip_from_folder), the retention pass (cleanup_old_backups with  *)
(* its file_key) and the orchestration in main.                            *)
(*                                                                         *)
(* Strings are modelled as sequences of tokens, a token being a pair       *)
(* <<text, number>>: a file name "a_2024-..Z.zip" is                       *)
(* <<A, US, TS(n), ZIP>>, where TS(n) stands for a substring that matches  *)
(* the format '%Y-%m-%dT%H-%M-%S.%fZ' and denotes the wall-clock instant n.*)
(* Paths are sequences of components.                                      *)
(***************************************************************************)
EXTENDS Integers, Sequences, FiniteSets, TLC

VARIABLES
    pc,         \* position of the control flow
    entry,      \* which function was called: "main", "mirror" or "prune"
    \* ---- environment of the retention pass
    outExists,  \* the output directory exists
    outdir,     \* output directory: file name -> <<mtime>>, or <<>> when stat fails
    prefix,     \* cfg['zip_prefix'] / parameter prefix
    keep,       \* cfg['keep_backups'] / parameter keep
    tz,         \* UTC offset of the local time zone (naive datetime.timestamp())
    \* ---- locals of cleanup_old_backups
    files,      \* the list `files` after the sort
    to_delete,  \* the list `to_delete`
    di,         \* number of entries of to_delete the loop has gone through
    listed,     \* os.listdir has been called
    removed,    \* names os.remove has removed
    failedRm,   \* names for which os.remove raised
    outdir0,    \* the output directory in the initial state (history)
    \* ---- the remote session and the local file system of the mirror
    stack,      \* call stack of download_sftp_dir, innermost frame last
    budget,     \* number of entries the remote listings may still return
    rtree,      \* the remote entries listed so far (history)
    ldirs,      \* local directories the run has created (resolved paths)
    lfiles,     \* local files the run has written: resolved path -> contents
    failedPath, \* <<remote path>> of the list or fetch call that failed, else <<>>
    lateCalls,  \* a list or fetch call was issued after one had failed
    \* ---- main
    connOpen,   \* the SSH connection is established and not closed
    sftpOpen,   \* the SFTP channel is open and not closed
    ssh,        \* main's variable ssh is not None
    sftp,       \* main's variable sftp is not None
    tmpdir,     \* main's variable tmpdir is not None
    newZip,     \* name of the archive file this run created, else <<>>
    ret,        \* the functions that have returned normally (history)
    exc,        \* the exception raised, [type |-> "none", ...] when none
    exitCode    \* the process exit status, -1 while running

pvars == <<outExists, outdir, prefix, keep, tz, files, to_delete, di, listed,
           removed, failedRm, outdir0>>
mvars == <<stack, budget, rtree, ldirs, lfiles, failedPath, lateCalls>>
gvars == <<connOpen, sftpOpen, ssh, sftp, tmpdir, newZip>>
vars == <<pc, entry, pvars, mvars, gvars, ret, exc, exitCode>>

----------------------------------------------------------------------------
\* Bounds of the model
MaxFiles == 3           \* files in the output directory before the call
MaxKeep == 3            \* largest keep explored (the smallest is -1)
MaxNodes == 3           \* entries the remote listings of one mirror return
MainMaxFiles == 1       \* as MaxFiles, for a run of main
MainMaxNodes == 1       \* as MaxNodes, for a run of main

\* Tokens
Tok(s) == <<s, 0>>
TS(n) == <<"ts", n>>
A == Tok("a")
B == Tok("b")
G == Tok("g")
US == Tok("_")
ZIP == Tok(".zip")
ZIPU == Tok(".ZIP")
TXT == Tok(".txt")

\* The file names the output directory may hold before the call
FileNames ==
    { <<A, US, TS(1), ZIP>>,        \* archiver's scheme, prefix a
      <<A, US, TS(-2), ZIP>>,       \* a timestamp before the epoch
      <<A, US, G, ZIP>>,            \* no timestamp in the name
      <<A, TS(1), ZIPU>>,           \* prefix without '_', upper-case suffix
      <<TS(3), ZIP>>,               \* archiver's scheme, empty prefix
      <<B, US, TS(1), TXT>> }       \* not an archive

Prefixes == { <<>>, <<A>> }
Keeps == (-1)..MaxKeep
MainKeeps == 0..(MainMaxFiles + 1)
TzOffsets == {0, 1}
MTimes == {-1, 2}
MTimeChoices == { <<>> } \cup { <<m>> : m \in MTimes }

----------------------------------------------------------------------------
\* String helpers
StartsWith(s, p) == Len(p) <= Len(s) /\ SubSeq(s, 1, Len(p)) = p
Drop(s, n) == SubSeq(s, n + 1, Len(s))

\* f.lower().endswith('.zip')
EndsWithZipLower(f) == Len(f) > 0 /\ f[Len(f)] \in {ZIP, ZIPU}

\* name.rsplit('.zip', 1)[0]: the part before the last (case-sensitive) '.zip'
RSplitZip(name) ==
    LET occ == { i \in 1..Len(name) : name[i] = ZIP }
    IN  IF occ = {} THEN name
        ELSE LET last == CHOOSE i \in occ : \A j \in occ : j <= i
             IN  SubSeq(name, 1, last - 1)

\* the filter of the list comprehension
IsCandidate(f, pfx) ==
    EndsWithZipLower(f) /\ (IF pfx # <<>> THEN StartsWith(f, pfx) ELSE TRUE)

\* the prefix stripping of file_key
StripPrefix(fname, pfx) ==
    IF pfx # <<>> /\ StartsWith(fname, pfx \o <<US>>) THEN Drop(fname, Len(pfx) + 1)
    ELSE IF pfx # <<>> /\ StartsWith(fname, pfx) THEN Drop(fname, Len(pfx))
    ELSE fname

\* datetime.strptime(name, '%Y-%m-%dT%H-%M-%S.%fZ') succeeds
Parses(name) == Len(name) = 1 /\ name[1][1] = "ts"

\* dt.timestamp() of the naive datetime: the wall clock read in local time
Timestamp(name, off) == name[1][2] - off

\* the value file_key returns when both the parse and getmtime fail
NoKey == 0

\* file_key(fname)
file_key(fname, pfx, dir, off) ==
    LET name == RSplitZip(StripPrefix(fname, pfx))
    IN  IF Parses(name) THEN Timestamp(name, off)
        ELSE IF fname \in DOMAIN dir /\ dir[fname] # <<>> THEN dir[fname][1]
        ELSE NoKey

\* (mutant) the sort without reverse=True: oldest first
RECURSIVE InsertAsc(_, _, _, _, _, _)
InsertAsc(s, i, f, pfx, dir, off) ==
    IF i > Len(s) THEN Append(s, f)
    ELSE IF file_key(s[i], pfx, dir, off) > file_key(f, pfx, dir, off)
         THEN SubSeq(s, 1, i - 1) \o <<f>> \o SubSeq(s, i, Len(s))
         ELSE InsertAsc(s, i + 1, f, pfx, dir, off)

\* files.sort(key=file_key, reverse=True): stable, equal keys keep their order
RECURSIVE InsertDesc(_, _, _, _, _, _)
InsertDesc(s, i, f, pfx, dir, off) ==
    IF i > Len(s) THEN Append(s, f)
    ELSE IF file_key(s[i], pfx, dir, off) < file_key(f, pfx, dir, off)
         THEN SubSeq(s, 1, i - 1) \o <<f>> \o SubSeq(s, i, Len(s))
         ELSE InsertDesc(s, i + 1, f, pfx, dir, off)

RECURSIVE SortDesc(_, _, _, _)
SortDesc(s, pfx, dir, off) ==
    IF s = <<>> THEN <<>>
    ELSE InsertDesc(SortDesc(SubSeq(s, 1, Len(s) - 1), pfx, dir, off), 1,
                    s[Len(s)], pfx, dir, off)

\* (mutant) files[keep - 1:]
SliceOffByOne(s, k) == SubSeq(s, k, Len(s))

\* files[keep:]
Slice(s, k) == SubSeq(s, k + 1, Len(s))

Range(s) == { s[i] : i \in 1..Len(s) }
Perms(S) == { s \in [1..Cardinality(S) -> S] : Range(s) = S }

----------------------------------------------------------------------------
\* Paths and remote entry names.  A name the server reports is
\* [abs |-> it starts with '/', parts |-> its components].
Name(parts) == [abs |-> FALSE, parts |-> parts]
AbsName(parts) == [abs |-> TRUE, parts |-> parts]

\* the entries a remote listing may hold: [name, dir |-> S_ISDIR(st_mode)]
EntryChoices ==
    { [name |-> Name(<<"a">>), dir |-> FALSE],
      [name |-> Name(<<"a">>), dir |-> TRUE],
      [name |-> Name(<<"b">>), dir |-> FALSE],
      [name |-> Name(<<"b">>), dir |-> TRUE],
      [name |-> Name(<<"..">>), dir |-> TRUE],
      [name |-> Name(<<"..", "e">>), dir |-> FALSE],
      [name |-> AbsName(<<"e">>), dir |-> FALSE] }

\* listings of n entries with pairwise different names
Listings(n) ==
    { s \in [1..n -> EntryChoices] :
        \A i, j \in 1..n : i # j => s[i].name # s[j].name }

\* cfg['dir'], tempfile.mkdtemp() and local_target
RemoteRoot == <<"data">>
TmpDir == <<"tmp", "sftp_download_x">>
LocalTarget == TmpDir \o <<"data">>

\* the directories that exist before the run
PreExisting == { <<>>, <<"tmp">> }

\* name in ('.', '..')
IsDot(name) == ~name.abs /\ name.parts \in { <<".">>, <<"..">> }

\* remote_dir.rstrip('/') + '/' + name
RemoteJoin(remote_dir, name) == remote_dir \o name.parts

\* (mutant) the name alone, local_dir forgotten
LocalJoinBug(local_dir, name) == name.parts

\* os.path.join(local_dir, name): an absolute name replaces local_dir
LocalJoin(local_dir, name) ==
    IF name.abs THEN name.parts ELSE local_dir \o name.parts

\* os.path.dirname
Dirname(path) == IF path = <<>> THEN <<>> ELSE SubSeq(path, 1, Len(path) - 1)

\* the location the operating system resolves a path to
RECURSIVE Resolve(_)
Resolve(path) ==
    IF path = <<>> THEN <<>>
    ELSE LET front == Resolve(SubSeq(path, 1, Len(path) - 1))
             last == path[Len(path)]
         IN  IF last = "." THEN front
             ELSE IF last = ".." THEN Dirname(front)
             ELSE Append(front, last)

IsUnder(path, dir) == Len(dir) <= Len(path) /\ SubSeq(path, 1, Len(dir)) = dir

\* os.makedirs(path, exist_ok=True): the directories it creates
Makedirs(path) ==
    { Resolve(SubSeq(path, 1, n)) : n \in 0..Len(path) } \ PreExisting

NoExc == [type |-> "none", path |-> <<>>, by |-> "none"]
Exc(type, path, by) == [type |-> type, path |-> path, by |-> by]

Frame(remote_dir, local_dir) ==
    [rdir |-> remote_dir, ldir |-> local_dir, entries |-> <<>>, i |-> 0,
     st |-> "start"]

Top == stack[Len(stack)]
SetTop(f) == [stack EXCEPT ![Len(stack)] = f]
Pop == SubSeq(stack, 1, Len(stack) - 1)

----------------------------------------------------------------------------
\* Output directories: at most n files, each with its stat result
OutDirs(n) ==
    UNION { [S -> MTimeChoices] :
            S \in { T \in SUBSET FileNames : Cardinality(T) <= n } }

PruneIdle ==
    /\ files = <<>>
    /\ to_delete = <<>>
    /\ di = 0
    /\ listed = FALSE
    /\ removed = {}
    /\ failedRm = {}

PruneEnv(n, keeps) ==
    /\ outExists \in BOOLEAN
    /\ outdir \in OutDirs(n)
    /\ (~outExists => outdir = <<>>)
    /\ outdir0 = outdir
    /\ prefix \in Prefixes
    /\ keep \in keeps
    /\ tz \in TzOffsets

MirrorIdle ==
    /\ stack = <<>>
    /\ rtree = {}
    /\ lfiles = <<>>
    /\ failedPath = <<>>
    /\ lateCalls = FALSE

MainIdle ==
    /\ connOpen = FALSE
    /\ sftpOpen = FALSE
    /\ ssh = FALSE
    /\ sftp = FALSE
    /\ tmpdir = FALSE
    /\ newZip = <<>>
    /\ ret = {}
    /\ exc = NoExc
    /\ exitCode = -1

\* a call of cleanup_old_backups(output_dir, prefix, keep)
InitPrune ==
    /\ entry = "prune"
    /\ pc = "cleanup"
    /\ PruneEnv(MaxFiles, Keeps)
    /\ PruneIdle
    /\ MirrorIdle
    /\ budget = 0
    /\ ldirs = {}
    /\ MainIdle

\* a call of download_sftp_dir(sftp, remote_dir, local_target), the session
\* open and the temporary directory made
InitMirror ==
    /\ entry = "mirror"
    /\ pc = "mirror"
    /\ outExists = FALSE /\ outdir = <<>> /\ outdir0 = <<>>
    /\ prefix = <<>> /\ keep = 0 /\ tz = 0
    /\ PruneIdle
    /\ stack = <<Frame(RemoteRoot, LocalTarget)>>
    /\ budget = MaxNodes
    /\ rtree = {}
    /\ ldirs = {TmpDir}
    /\ lfiles = <<>>
    /\ failedPath = <<>>
    /\ lateCalls = FALSE
    /\ connOpen = TRUE /\ sftpOpen = TRUE
    /\ ssh = TRUE /\ sftp = TRUE /\ tmpdir = TRUE
    /\ newZip = <<>>
    /\ ret = {}
    /\ exc = NoExc
    /\ exitCode = -1

\* main, after read_config() has returned
Init ==
    /\ entry = "main"
    /\ pc = "connect"
    /\ PruneEnv(MainMaxFiles, MainKeeps)
    /\ PruneIdle
    /\ MirrorIdle
    /\ budget = MainMaxNodes
    /\ ldirs = {}
    /\ MainIdle

----------------------------------------------------------------------------
\* cleanup_old_backups

\* where cleanup_old_backups returns to
AfterCleanup == IF entry = "main" THEN "finally" ELSE "done"

\* (mutant) `if keep < 0: return`
KeepNegative(k) == k < 0

\* the test of `if keep <= 0: return`
KeepNonPositive(k) == k <= 0

\* if keep <= 0: return
CleanupNoop ==
    /\ pc = "cleanup"
    /\ KeepNonPositive(keep)
    /\ pc' = AfterCleanup
    /\ ret' = ret \cup {"cleanup_old_backups"}
    /\ UNCHANGED <<entry, pvars, mvars, gvars, exc, exitCode>>

\* os.listdir raises FileNotFoundError: return
CleanupNoDir ==
    /\ pc = "cleanup"
    /\ ~KeepNonPositive(keep)
    /\ ~outExists
    /\ listed' = TRUE
    /\ pc' = AfterCleanup
    /\ ret' = ret \cup {"cleanup_old_backups"}
    /\ UNCHANGED <<entry, outExists, outdir, prefix, keep, tz, files, to_delete,
                   di, removed, failedRm, outdir0, mvars, gvars, exc, exitCode>>

\* os.listdir (in any order), the filter, the sort and the slice
CleanupList ==
    /\ pc = "cleanup"
    /\ ~KeepNonPositive(keep)
    /\ outExists
    /\ \E order \in Perms({ f \in DOMAIN outdir : IsCandidate(f, prefix) }) :
          /\ files' = SortDesc(order, prefix, outdir, tz)
          /\ to_delete' = Slice(files', keep)
    /\ listed' = TRUE
    /\ di' = 0
    /\ pc' = "removing"
    /\ UNCHANGED <<entry, outExists, outdir, prefix, keep, tz, removed, failedRm,
                   outdir0, mvars, gvars, ret, exc, exitCode>>

\* os.remove(path) succeeds
RemoveOk ==
    /\ pc = "removing"
    /\ di < Len(to_delete)
    /\ LET fname == to_delete[di + 1]
       IN  /\ outdir' = [f \in DOMAIN outdir \ {fname} |-> outdir[f]]
           /\ removed' = removed \cup {fname}
    /\ di' = di + 1
    /\ UNCHANGED <<pc, entry, outExists, prefix, keep, tz, files, to_delete,
                   listed, failedRm, outdir0, mvars, gvars, ret, exc, exitCode>>

\* (mutant) os.remove(path) raises and nothing catches it
RemoveFailAbort ==
    /\ pc = "removing"
    /\ di < Len(to_delete)
    /\ failedRm' = failedRm \cup {to_delete[di + 1]}
    /\ exc' = [type |-> "OSError", path |-> <<>>, by |-> "os.remove"]
    /\ pc' = IF entry = "main" THEN "finally" ELSE "done"
    /\ exitCode' = IF entry = "main" THEN 1 ELSE exitCode
    /\ UNCHANGED <<entry, outExists, outdir, prefix, keep, tz, files,
                   to_delete, di, listed, removed, outdir0, mvars, gvars, ret>>

\* os.remove(path) raises: the except clause prints and the loop goes on
RemoveFail ==
    /\ pc = "removing"
    /\ di < Len(to_delete)
    /\ failedRm' = failedRm \cup {to_delete[di + 1]}
    /\ di' = di + 1
    /\ UNCHANGED <<pc, entry, outExists, outdir, prefix, keep, tz, files,
                   to_delete, listed, removed, outdir0, mvars, gvars, ret, exc,
                   exitCode>>

\* the loop is over: cleanup_old_backups returns
CleanupReturn ==
    /\ pc = "removing"
    /\ di = Len(to_delete)
    /\ pc' = AfterCleanup
    /\ ret' = ret \cup {"cleanup_old_backups"}
    /\ UNCHANGED <<entry, pvars, mvars, gvars, exc, exitCode>>

----------------------------------------------------------------------------
\* download_sftp_dir and download_sftp_file

\* an exception leaves download_sftp_dir: every frame is unwound; in main the
\* inner handler prints and re-raises, the outer one prints and exits with 1
MirrorRaise(e, remote_path) ==
    /\ exc' = e
    /\ failedPath' = <<remote_path>>
    /\ stack' = <<>>
    /\ pc' = IF entry = "main" THEN "finally" ELSE "done"
    /\ exitCode' = IF entry = "main" THEN 1 ELSE exitCode

\* a list or fetch call is issued
IssueCall == lateCalls' = (lateCalls \/ failedPath # <<>>)

\* os.makedirs(local_dir); sftp.listdir_attr(remote_dir) returns
ListOk ==
    /\ pc = "mirror"
    /\ Top.st = "start"
    /\ \E n \in 0..budget : \E entries \in Listings(n) :
          /\ stack' = SetTop([Top EXCEPT !.entries = entries, !.st = "loop"])
          /\ budget' = budget - n
          /\ rtree' = rtree \cup
                { [rdir |-> Top.rdir, name |-> entries[i].name,
                   dir |-> entries[i].dir] :
                  i \in { j \in 1..n : ~IsDot(entries[j].name) } }
    /\ ldirs' = ldirs \cup Makedirs(Top.ldir)
    /\ IssueCall
    /\ UNCHANGED <<pc, entry, pvars, lfiles, failedPath, gvars, ret, exc, exitCode>>

\* sftp.listdir_attr raises IOError: RuntimeError naming remote_dir
ListIOError ==
    /\ pc = "mirror"
    /\ Top.st = "start"
    /\ ldirs' = ldirs \cup Makedirs(Top.ldir)
    /\ IssueCall
    /\ MirrorRaise(Exc("RuntimeError", Top.rdir, "download_sftp_dir"), Top.rdir)
    /\ UNCHANGED <<entry, pvars, budget, rtree, lfiles, gvars, ret>>

\* sftp.listdir_attr raises an exception that is no IOError: not caught
ListOtherError ==
    /\ pc = "mirror"
    /\ Top.st = "start"
    /\ ldirs' = ldirs \cup Makedirs(Top.ldir)
    /\ IssueCall
    /\ MirrorRaise(Exc("SSHException", <<>>, "listdir_attr"), Top.rdir)
    /\ UNCHANGED <<entry, pvars, budget, rtree, lfiles, gvars, ret>>

InLoop == pc = "mirror" /\ Top.st = "loop" /\ Top.i < Len(Top.entries)
Cur == Top.entries[Top.i + 1]
Advanced == SetTop([Top EXCEPT !.i = Top.i + 1])

\* if name in ('.', '..'): continue
SkipDot ==
    /\ InLoop
    /\ IsDot(Cur.name)
    /\ stack' = Advanced
    /\ UNCHANGED <<pc, entry, pvars, budget, rtree, ldirs, lfiles, failedPath,
                   lateCalls, gvars, ret, exc, exitCode>>

\* S_ISDIR: download_sftp_dir(sftp, remote_path, local_path)
Descend ==
    /\ InLoop
    /\ ~IsDot(Cur.name)
    /\ Cur.dir
    /\ stack' = Append(Advanced, Frame(RemoteJoin(Top.rdir, Cur.name),
                                      LocalJoin(Top.ldir, Cur.name)))
    /\ UNCHANGED <<pc, entry, pvars, budget, rtree, ldirs, lfiles, failedPath,
                   lateCalls, gvars, ret, exc, exitCode>>

\* the local file system after open(local_path, 'wb') and a write of `contents`
WriteFile(local_path, contents) ==
    [p \in DOMAIN lfiles \cup {Resolve(local_path)} |->
        IF p = Resolve(local_path) THEN contents ELSE lfiles[p]]

\* download_sftp_file: os.makedirs(dirname); sftp.get succeeds.  The contents
\* of a remote file are identified with its remote path.
FetchOk ==
    /\ InLoop
    /\ ~IsDot(Cur.name)
    /\ ~Cur.dir
    /\ LET local_path == LocalJoin(Top.ldir, Cur.name)
       IN  /\ ldirs' = ldirs \cup Makedirs(Dirname(local_path))
           /\ lfiles' = WriteFile(local_path, RemoteJoin(Top.rdir, Cur.name))
    /\ stack' = Advanced
    /\ IssueCall
    /\ UNCHANGED <<pc, entry, pvars, budget, rtree, failedPath, gvars, ret, exc,
                   exitCode>>

\* download_sftp_file: sftp.get raises, before or after it has written part of
\* the local file; nothing catches it in download_sftp_dir
FetchFail ==
    /\ InLoop
    /\ ~IsDot(Cur.name)
    /\ ~Cur.dir
    /\ LET local_path == LocalJoin(Top.ldir, Cur.name)
       IN  /\ ldirs' = ldirs \cup Makedirs(Dirname(local_path))
           /\ \E partial \in BOOLEAN :
                 lfiles' = IF partial THEN WriteFile(local_path, <<"partial">>)
                           ELSE lfiles
    /\ IssueCall
    /\ MirrorRaise(Exc("IOError", <<>>, "sftp.get"), RemoteJoin(Top.rdir, Cur.name))
    /\ UNCHANGED <<entry, pvars, budget, rtree, gvars, ret>>

\* the for loop is over: this call of download_sftp_dir returns
DirReturn ==
    /\ pc = "mirror"
    /\ Top.st = "loop"
    /\ Top.i = Len(Top.entries)
    /\ stack' = Pop
    /\ IF Len(stack) = 1
       THEN /\ pc' = IF entry = "main" THEN "zip" ELSE "done"
            /\ ret' = ret \cup {"download_sftp_dir"}
       ELSE UNCHANGED <<pc, ret>>
    /\ UNCHANGED <<entry, pvars, budget, rtree, ldirs, lfiles, failedPath,
                   lateCalls, gvars, exc, exitCode>>

----------------------------------------------------------------------------
\* main, connect_sftp and create_zip_from_folder

\* an exception reaches `except Exception as e` of main: sys.exit(1)
MainRaise(e) ==
    /\ exc' = e
    /\ exitCode' = 1
    /\ pc' = "finally"

\* connect_sftp: ssh.connect raises, RuntimeError
ConnectFail ==
    /\ pc = "connect"
    /\ MainRaise(Exc("RuntimeError", <<>>, "connect_sftp"))
    /\ UNCHANGED <<entry, pvars, mvars, gvars, ret>>

\* connect_sftp: ssh.connect succeeds and ssh.open_sftp raises; the client
\* is a local of connect_sftp and main's ssh stays None
OpenSftpFail ==
    /\ pc = "connect"
    /\ connOpen' = TRUE
    /\ MainRaise(Exc("SSHException", <<>>, "open_sftp"))
    /\ UNCHANGED <<entry, pvars, mvars, sftpOpen, ssh, sftp, tmpdir, newZip, ret>>

\* ssh, sftp = connect_sftp(cfg)
ConnectOk ==
    /\ pc = "connect"
    /\ connOpen' = TRUE
    /\ sftpOpen' = TRUE
    /\ ssh' = TRUE
    /\ sftp' = TRUE
    /\ ret' = ret \cup {"connect_sftp"}
    /\ pc' = "mkdtemp"
    /\ UNCHANGED <<entry, pvars, mvars, tmpdir, newZip, exc, exitCode>>

\* tempfile.mkdtemp raises
MkdtempFail ==
    /\ pc = "mkdtemp"
    /\ MainRaise(Exc("OSError", <<>>, "mkdtemp"))
    /\ UNCHANGED <<entry, pvars, mvars, gvars, ret>>

\* tmpdir = tempfile.mkdtemp(...); the call of download_sftp_dir
Mkdtemp ==
    /\ pc = "mkdtemp"
    /\ tmpdir' = TRUE
    /\ ldirs' = ldirs \cup {TmpDir}
    /\ stack' = <<Frame(RemoteRoot, LocalTarget)>>
    /\ pc' = "mirror"
    /\ UNCHANGED <<entry, pvars, budget, rtree, lfiles, failedPath, lateCalls,
                   connOpen, sftpOpen, ssh, sftp, newZip, ret, exc, exitCode>>

\* datetime.utcnow() when the archive is named
Now == 2

\* zip_name
ZipName(pfx) ==
    (IF pfx # <<>> THEN pfx \o <<US>> ELSE <<>>) \o <<TS(Now), ZIP>>

\* the output directory with the archive file in it
WithZip(dir, name) ==
    [f \in DOMAIN dir \cup {name} |-> IF f = name THEN <<Now>> ELSE dir[f]]

\* create_zip_from_folder returns zip_path
ZipOk ==
    /\ pc = "zip"
    /\ outExists' = TRUE
    /\ outdir' = WithZip(outdir, ZipName(prefix))
    /\ newZip' = ZipName(prefix)
    /\ ret' = ret \cup {"create_zip_from_folder"}
    /\ pc' = "cleanup"
    /\ UNCHANGED <<entry, prefix, keep, tz, files, to_delete, di, listed, removed,
                   failedRm, outdir0, mvars, connOpen, sftpOpen, ssh, sftp,
                   tmpdir, exc, exitCode>>

\* os.makedirs(output_dir) or zipfile.ZipFile(zip_path, 'w') raises: no file
ZipFailOpen ==
    /\ pc = "zip"
    /\ \E made \in BOOLEAN : outExists' = (outExists \/ made)
    /\ MainRaise(Exc("OSError", <<>>, "create_zip_from_folder"))
    /\ UNCHANGED <<entry, outdir, prefix, keep, tz, files, to_delete, di, listed,
                   removed, failedRm, outdir0, mvars, gvars, ret>>

\* zf.write, or the closing of the archive, raises after ZipFile has created
\* the file; the with statement closes the file and nothing removes it
ZipFailWrite ==
    /\ pc = "zip"
    /\ outExists' = TRUE
    /\ outdir' = WithZip(outdir, ZipName(prefix))
    /\ newZip' = ZipName(prefix)
    /\ MainRaise(Exc("OSError", <<>>, "create_zip_from_folder"))
    /\ UNCHANGED <<entry, prefix, keep, tz, files, to_delete, di, listed, removed,
                   failedRm, outdir0, mvars, connOpen, sftpOpen, ssh, sftp,
                   tmpdir, ret>>

\* the finally clause of main, then the process ends
Finally ==
    /\ pc = "finally"
    /\ sftpOpen' = IF sftp \/ ssh THEN FALSE ELSE sftpOpen
    /\ connOpen' = IF ssh THEN FALSE ELSE connOpen
    /\ IF tmpdir /\ TmpDir \in ldirs
       THEN /\ ldirs' = { d \in ldirs : ~IsUnder(d, TmpDir) }
            /\ lfiles' = [p \in { q \in DOMAIN lfiles : ~IsUnder(q, TmpDir) } |->
                            lfiles[p]]
       ELSE UNCHANGED <<ldirs, lfiles>>
    /\ exitCode' = IF exitCode = -1 THEN 0 ELSE exitCode
    /\ pc' = "done"
    /\ UNCHANGED <<entry, pvars, stack, budget, rtree, failedPath, lateCalls,
                   ssh, sftp, tmpdir, newZip, ret, exc>>

----------------------------------------------------------------------------
\* the steps of cleanup_old_backups when output_dir exists
PruneSteps ==
    \/ CleanupNoop
    \/ CleanupList
    \/ RemoveOk
    \/ RemoveFail
    \/ CleanupReturn

NextPrune ==
    \/ PruneSteps
    \/ CleanupNoDir

NextMirror ==
    \/ ListOk
    \/ ListIOError
    \/ ListOtherError
    \/ SkipDot
    \/ Descend
    \/ FetchOk
    \/ FetchFail
    \/ DirReturn

Next ==
    \/ ConnectFail
    \/ OpenSftpFail
    \/ ConnectOk
    \/ MkdtempFail
    \/ Mkdtemp
    \/ NextMirror
    \/ ZipOk
    \/ ZipFailOpen
    \/ ZipFailWrite
    \/ PruneSteps      \* create_zip_from_folder has made output_dir
    \/ Finally

\* a run of main
Spec == Init /\ [][Next]_vars
\* a call of download_sftp_dir
SpecMirror == InitMirror /\ [][NextMirror]_vars
\* a call of cleanup_old_backups
SpecPrune == InitPrune /\ [][NextPrune]_vars

----------------------------------------------------------------------------
\* Properties

Max(a, b) == IF a >= b THEN a ELSE b

\* the candidates of the retention pass in the initial directory, their sortKey
Cands0 == { f \in DOMAIN outdir0 : IsCandidate(f, prefix) }
Key0(f) == file_key(f, prefix, outdir0, tz)
PruneReturned == "cleanup_old_backups" \in ret
PruneEnded == entry = "prune" /\ pc = "done"

\* C1: a retention pass with 1 <= keep < candidateCount in which every removal
\* succeeds deletes exactly candidateCount - keep candidates and nothing else,
\* and every survivor's sortKey is at least every deleted file's sortKey: the
\* survivors are keep candidates with the largest sortKeys.
C1_KeepsNewest ==
    (PruneEnded /\ keep >= 1 /\ keep < Cardinality(Cands0) /\ failedRm = {}) =>
        /\ PruneReturned
        /\ removed \subseteq Cands0
        /\ Cardinality(removed) = Cardinality(Cands0) - keep
        /\ DOMAIN outdir = DOMAIN outdir0 \ removed
        /\ Cardinality(Cands0 \ removed) = keep
        /\ \A kept \in Cands0 \ removed : \A r \in removed : Key0(kept) >= Key0(r)

\* a pass that deleted two files and kept a strictly newer one
C1_Witness ==
    /\ PruneEnded /\ keep >= 1 /\ keep < Cardinality(Cands0) /\ failedRm = {}
    /\ Cardinality(removed) >= 2
    /\ \E kept \in Cands0 \ removed : \A r \in removed : Key0(kept) > Key0(r)

\* C2: at every moment of a retention pass, whatever the directory, prefix and
\* keep and whichever removals fail, only candidates are deleted, at most
\* max(0, candidateCount - keep) of them, and every deleted file has at least
\* keep surviving candidates whose sortKey is not below its own (its rank in the
\* newest-first order is above keep).
C2_NeverTooMany ==
    /\ removed \subseteq Cands0
    /\ Cardinality(removed) <= Max(0, Cardinality(Cands0) - keep)
    /\ \A r \in removed :
          Cardinality({ g \in Cands0 \ removed : Key0(g) >= Key0(r) }) >= keep

\* a pass with a failed removal, in which a deleted file ties with a survivor
C2_Witness ==
    /\ PruneEnded
    /\ failedRm # {}
    /\ \E r \in removed : \E g \in Cands0 \ (removed \cup failedRm) : Key0(g) = Key0(r)

\* C3: with keep <= 0 the retention pass never lists or sorts the directory,
\* deletes nothing and leaves the directory as it was.
C3_NonPositiveKeepIsNoop ==
    keep <= 0 =>
        /\ ~listed
        /\ files = <<>>
        /\ removed = {} /\ failedRm = {}
        /\ outdir = outdir0
        /\ (PruneEnded => PruneReturned)

\* the pass has returned with keep = 0 on a directory holding candidates
C3_Witness == PruneEnded /\ keep = 0 /\ Cardinality(Cands0) >= 2

\* C9: when the retention pass ends, removal was attempted for every file
\* selected for deletion, also after a removal failed; the files whose removal
\* failed are still in place, the others are gone, and the call returned
\* normally.
C9_FailedRemovalDoesNotAbort ==
    (PruneEnded /\ listed /\ outExists) =>
        /\ PruneReturned
        /\ exc = NoExc
        /\ removed \cup failedRm = Range(to_delete)
        /\ failedRm \subseteq DOMAIN outdir
        /\ removed \cap DOMAIN outdir = {}

\* a pass in which a removal failed and a later one succeeded
C9_Witness ==
    /\ PruneEnded
    /\ \E i, j \in 1..Len(to_delete) :
          i < j /\ to_delete[i] \in failedRm /\ to_delete[j] \in removed

\* the name of f, stripped, does not parse as a timestamp
Unparsed(f) == ~Parses(RSplitZip(StripPrefix(f, prefix)))

\* C10: in the sorted list, a candidate whose name does not parse has its
\* last-modified instant as sortKey, and one whose last-modified instant is
\* unavailable too has a sortKey that no other candidate's sortKey is below.
C10_UnkeyedIsOldest ==
    pc = "removing" =>
        \A f \in Range(files) :
            /\ (Unparsed(f) /\ outdir0[f] # <<>>) => Key0(f) = outdir0[f][1]
            /\ (Unparsed(f) /\ outdir0[f] = <<>>) =>
                   \A g \in Range(files) : Key0(f) <= Key0(g)

----------------------------------------------------------------------------
MainEnded == entry = "main" /\ pc = "done"
MirrorFailed == failedPath # <<>>
ArchiveFailed == exc.by = "create_zip_from_folder"

\* C4: when a run of main ends, the SSH connection and the SFTP channel it
\* opened are closed and the temporary directory is gone.
C4_ResourcesReleased ==
    MainEnded =>
        /\ ~connOpen
        /\ ~sftpOpen
        /\ \A d \in ldirs : ~IsUnder(d, TmpDir)

\* C5: when a run of main whose mirror or archive step failed ends, the output
\* directory holds no file that was not there before the run and nothing is
\* left of the temporary directory.
C5_FailureLeavesNothing ==
    (MainEnded /\ (MirrorFailed \/ ArchiveFailed)) =>
        /\ DOMAIN outdir \subseteq DOMAIN outdir0
        /\ \A d \in ldirs : ~IsUnder(d, TmpDir)
        /\ \A p \in DOMAIN lfiles : ~IsUnder(p, TmpDir)

----------------------------------------------------------------------------
MirrorEnded == entry = "mirror" /\ pc = "done"
RemotePath(e) == RemoteJoin(e.rdir, e.name)

\* every name the listings returned is a single component
PlainNames == \A e \in rtree : ~e.name.abs /\ Len(e.name.parts) = 1

\* the remote tree the listings described, relative to the remote root
Rel(remote_path) == Drop(remote_path, Len(RemoteRoot))
RemoteDirs == { <<>> } \cup { Rel(RemotePath(e)) : e \in { x \in rtree : x.dir } }
RemoteFiles == { Rel(RemotePath(e)) : e \in { x \in rtree : ~x.dir } }

\* C6: a mirror of a remote tree whose list and fetch calls all succeed ends by
\* returning, and then the local directories it made are exactly the remote
\* directories, the local files exactly the remote files, each at the same
\* relative path under the local target and with the contents of its remote file.
C6_MirrorIsomorphic ==
    (MirrorEnded /\ ~MirrorFailed /\ PlainNames) =>
        /\ "download_sftp_dir" \in ret
        /\ ldirs \ {TmpDir} = { LocalTarget \o d : d \in RemoteDirs }
        /\ DOMAIN lfiles = { LocalTarget \o f : f \in RemoteFiles }
        /\ \A f \in RemoteFiles : lfiles[LocalTarget \o f] = RemoteRoot \o f

\* a mirrored tree with a directory that holds only an empty directory, and a
\* file
C6_Witness ==
    /\ MirrorEnded /\ ~MirrorFailed /\ PlainNames
    /\ RemoteFiles # {}
    /\ \E d1, d2 \in RemoteDirs :
          /\ d1 # <<>> /\ Len(d2) = Len(d1) + 1 /\ IsUnder(d2, d1)
          /\ \A x \in RemoteDirs \cup RemoteFiles : IsUnder(x, d1) => x \in {d1, d2}

\* C7: every local directory and file the mirror creates lies under the local
\* target directory.
C7_StaysUnderTarget ==
    /\ \A d \in ldirs \ {TmpDir} : IsUnder(d, LocalTarget)
    /\ \A p \in DOMAIN lfiles : IsUnder(p, LocalTarget)

\* C8: once a list or fetch call has failed, no further call is issued, the
\* mirror has ended with an exception and not by returning, and the exception
\* names the remote path of the call that failed.
C8_FailureAbortsAndNamesPath ==
    MirrorFailed =>
        /\ ~lateCalls
        /\ stack = <<>>
        /\ "download_sftp_dir" \notin ret
        /\ exc # NoExc
        /\ exc.path = failedPath[1]

----------------------------------------------------------------------------
\* C11: in a run of main with keep_backups >= 1 whose mirror and archive steps
\* succeeded, the archive file the run created is never among the files the
\* run's retention pass deletes.
C11_NewArchiveSurvives ==
    (entry = "main" /\ keep >= 1 /\ "download_sftp_dir" \in ret
       /\ "create_zip_from_folder" \in ret) =>
        newZip \notin removed

====
